---- MODULE Spec2Model ----
(***************************************************************************)
(* Model of github-stars-this-year (src/index.ts): the paginated listing   *)
(* of the user's repositories, the per-repository stargazer window count   *)
(* run under p-limit(5), and the final report.                             *)
(*                                                                         *)
(* One step of the model is one turn of the event loop: a network          *)
(* response arrives and the awaiting function runs up to its next await.   *)
(***************************************************************************)
EXTENDS Integers, Sequences, FiniteSets, TLC

(***************************************************************************)
(* Program constants                                                       *)
(***************************************************************************)
perPage == 100
concurrency == 5
top10Size == 10
\* character codes deciding the string comparison of the two timestamp formats
CharZ == 90
CharDot == 46

(***************************************************************************)
(* Bounds of the model                                                     *)
(***************************************************************************)
StartYear == 2024
MaxTicks == 1
MaxEligible == 6
MaxListPages == 2
MaxFaults == 1
MaxRanked == 14

VARIABLES
    world,        \* the environment: token, remote repository list, stargazers
    now,          \* the process clock (calendar year)
    faults,       \* non-2xx responses served so far
    pc,           \* position of main
    currentYear,  \* main's currentYear
    page,         \* getPublicRepos: page
    repos,        \* getPublicRepos: repos
    listRequested,\* page indices requested from the repository list endpoint
    listStatus,   \* status of the last response of the repository list endpoint
    listResponses,\* responses received from the repository list endpoint
    starredRepos, \* main: starredRepos
    taskState,    \* per task: "queued", "running", "returned", "thrown"
    startOfYear,  \* per task: getStarsThisYear's startOfYear
    starsThisYear,\* per task: getStarsThisYear's running count
    spage,        \* per task: getStarsThisYear's page
    sRequested,   \* per task: page indices requested from the stargazers endpoint
    sStatus,      \* per task: status of the last response of the stargazers endpoint
    sResponses,   \* per task: responses received from the stargazers endpoint
    started,      \* names of the repositories whose pagination began, in order
    activeCount,  \* p-limit: tasks running
    queue,        \* p-limit: tasks waiting
    taskResult,   \* per task: the RepoStarResult it resolved to
    progress,     \* names for which a progress line was printed
    report        \* the summary printed by main

vars == <<world, now, faults, pc, currentYear, page, repos, listRequested,
          listStatus, listResponses, starredRepos, taskState, startOfYear,
          starsThisYear, spage, sRequested, sStatus, sResponses, started,
          activeCount, queue, taskResult, progress, report>>

listVars == <<page, repos, listRequested, listStatus, listResponses>>
taskVars == <<starredRepos, taskState, startOfYear, starsThisYear, spage,
              sRequested, sStatus, sResponses, started, activeCount, queue,
              taskResult, progress>>

NoResult == [none |-> TRUE]
NoReport == [none |-> TRUE]

Min(a, b) == IF a < b THEN a ELSE b

(***************************************************************************)
(* Timestamps.  An ISO-8601 string is modelled by the fields that decide   *)
(* a character-wise comparison: the year, the position within the year,    *)
(* and the first character after the seconds field ("Z" in the API's       *)
(* starred_at, "." in Date.prototype.toISOString()).                       *)
(***************************************************************************)
ApiTimestamp(year, sec) == <<year, sec, CharZ>>

toISOString(year, sec) == <<year, sec, CharDot>>

\* a < b on strings
StrLess(a, b) ==
    \/ a[1] < b[1]
    \/ a[1] = b[1] /\ a[2] < b[2]
    \/ a[1] = b[1] /\ a[2] = b[2] /\ a[3] < b[3]

\* a >= b on strings
StrGeq(a, b) == ~StrLess(a, b)

\* new Date(currentYear, 0, 1).toISOString() with currentYear read from the clock
StartOfYearAt(clock) == toISOString(clock, 0)

(***************************************************************************)
(* The remote data.  A stargazer list is kept run-length encoded: a        *)
(* sequence of <<timestamp, number of consecutive events>>.                *)
(***************************************************************************)
Old == ApiTimestamp(StartYear - 1, 5)
Boundary == ApiTimestamp(StartYear, 0)
Recent == ApiTimestamp(StartYear, 5)

\* lists of several pages, or ending a page at a place of interest
LongShapeList == <<
    << <<Recent, 3>> >>,
    << <<Recent, 2>>, <<Old, perPage - 2>>, <<Old, 4>> >>,
    << <<Recent, perPage>> >>,
    << <<Recent, perPage - 1>>, <<Boundary, 1>>, <<Boundary, 1>>, <<Old, 2>> >>,
    << <<Old, 7>> >>,
    << <<Recent, perPage - 1>>, <<Old, 1>>, <<Recent, 5>> >>,
    << <<Recent, perPage + 2>> >>,
    << >>
>>

\* lists of a few events
ShortShapeList == <<
    << <<Recent, 1>> >>,
    << <<Recent, 4>> >>,
    << <<Recent, 2>>, <<Old, 1>> >>,
    << <<Old, 2>> >>,
    << <<Recent, 6>> >>
>>

Shapes == LongShapeList \o ShortShapeList

LongShapes == Len(LongShapeList)

NumShapes == Len(Shapes)

RECURSIVE Expand(_)
Expand(runs) ==
    IF runs = <<>> THEN <<>>
    ELSE [k \in 1..runs[1][2] |-> [starred_at |-> runs[1][1]]] \o Expand(Tail(runs))

RECURSIVE RunsLen(_)
RunsLen(runs) == IF runs = <<>> THEN 0 ELSE runs[1][2] + RunsLen(Tail(runs))

\* position in the remote list of the j-th repository that is public and starred:
\* alternately from the front and from the back of the list
EligPos(w, j) == IF j % 2 = 1 THEN (j + 1) \div 2 ELSE w.n - (j \div 2 - 1)

EligIndex(w, i) ==
    IF \E j \in 1..w.e : EligPos(w, j) = i
    THEN CHOOSE j \in 1..w.e : EligPos(w, j) = i
    ELSE 0

\* the shape of the j-th starred repository: w.span shapes from w.rot on, in turn
ShapeIndex(w, j) == ((((j - 1) % w.span) + w.rot) % NumShapes) + 1

ShapeOf(w, j) == Shapes[ShapeIndex(w, j)]

\* the event lists the shapes stand for
ShapeEvents == [s \in 1..NumShapes |-> Expand(Shapes[s])]

\* the stargazer list the API holds for repository `name`
RemoteStargazers(w, name) ==
    IF EligIndex(w, name) = 0 THEN <<>> ELSE ShapeEvents[ShapeIndex(w, EligIndex(w, name))]

\* the i-th repository object of GET /users/{username}/repos
RemoteRepo(w, i) ==
    LET j == EligIndex(w, i)
    IN  [ name |-> i,
          full_name |-> <<"owner", i>>,
          html_url |-> <<"url", i>>,
          stargazers_count |->
              IF j # 0 THEN RunsLen(ShapeOf(w, j)) + j
              ELSE IF i % 2 = 1 THEN 2 ELSE 0,
          private |-> (j = 0 /\ i % 10 # 0) ]

RemoteRepos(w) == [i \in 1..w.n |-> RemoteRepo(w, i)]

\* one page of a remote list, as ?per_page=size&page=p serves it
PageOf(list, size, p) ==
    SubSeq(list, (p - 1) * size + 1, Min(p * size, Len(list)))

ListSizes ==
    {0} \cup { k * perPage + d : k \in 1..MaxListPages, d \in {-1, 0, 1} }

\* the runs explored: every list size with few starred repositories, and a
\* list spanning two pages with up to MaxEligible starred repositories, or
\* with as many as the limiter admits and the other stargazer lists
\* (hang names a repository whose stargazer requests from page hangPage on are
\* never answered, 0 when every request is answered; ticks is the number of
\* times the year changes at most while the process runs)
Worlds ==
    { [token |-> TRUE, n |-> n, e |-> e, rot |-> 0, span |-> LongShapes, hang |-> 0, hangPage |-> 0, ticks |-> MaxTicks] :
        n \in ListSizes, e \in {0, 2} }
    \cup
    { [token |-> TRUE, n |-> perPage + 1, e |-> e, rot |-> 0, span |-> LongShapes, hang |-> 0, hangPage |-> 0, ticks |-> MaxTicks] :
        e \in 1..MaxEligible }
    \cup
    { [token |-> TRUE, n |-> perPage + 1, e |-> concurrency, rot |-> 3,
       span |-> LongShapes, hang |-> 0, hangPage |-> 0, ticks |-> MaxTicks] }

\* the run without a token
NoTokenWorld ==
    [token |-> FALSE, n |-> 0, e |-> 0, rot |-> 0, span |-> LongShapes, hang |-> 0, hangPage |-> 0, ticks |-> MaxTicks]


(***************************************************************************)
(* Initial state: the process has been launched, nothing has run yet.      *)
(***************************************************************************)
\* the process starts in one of the worlds ws, in which `failed` of the
\* MaxFaults non-2xx responses have already been spent
InitIn(ws, failed) ==
    /\ world \in ws
    /\ now = StartYear
    /\ faults = failed
    /\ pc = "start"
    /\ currentYear = 0
    /\ page = 0
    /\ repos = <<>>
    /\ listRequested = <<>>
    /\ listStatus = 0
    /\ listResponses = 0
    /\ starredRepos = <<>>
    /\ taskState = <<>>
    /\ startOfYear = <<>>
    /\ starsThisYear = <<>>
    /\ spage = <<>>
    /\ sRequested = <<>>
    /\ sStatus = <<>>
    /\ sResponses = <<>>
    /\ started = <<>>
    /\ activeCount = 0
    /\ queue = <<>>
    /\ taskResult = <<>>
    /\ progress = {}
    /\ report = NoReport

Init == InitIn({ w \in Worlds : w.e <= w.n } \cup {NoTokenWorld}, 0)

\* runs over more starred repositories than the table shows, every response
\* successful, within one year
RankWorlds ==
    { [token |-> TRUE, n |-> perPage + 1, e |-> MaxRanked, rot |-> LongShapes,
       span |-> NumShapes - LongShapes, hang |-> 0, hangPage |-> 0, ticks |-> 0] }

InitRank == InitIn(RankWorlds \cup {NoTokenWorld}, MaxFaults)

(***************************************************************************)
(* HTTP                                                                    *)
(***************************************************************************)
Statuses == {200, 404, 500}

\* Response.ok
Ok(status) == status >= 200 /\ status <= 299

\* the environment may answer a request with a non-2xx status
Serve(status) ==
    /\ status \in Statuses
    /\ ~Ok(status) => faults < MaxFaults
    /\ faults' = IF Ok(status) THEN faults ELSE faults + 1

\* new Date().getFullYear(): the clock never runs backwards, and the year may
\* have changed since it was last read
ClockReads == now..(StartYear + world.ticks)

(***************************************************************************)
(* main, up to the first request of getPublicRepos                         *)
(***************************************************************************)
TokenMissing ==
    /\ pc = "start"
    /\ ~world.token
    /\ pc' = "exit1"
    /\ UNCHANGED <<world, now, faults, currentYear, listVars, taskVars, report>>

Main ==
    /\ pc = "start"
    /\ world.token
    /\ \E t \in ClockReads : now' = t /\ currentYear' = t
    /\ page' = 1
    /\ repos' = <<>>
    /\ listRequested' = <<1>>
    /\ listStatus' = 0
    /\ listResponses' = 0
    /\ pc' = "listing"
    /\ UNCHANGED <<world, faults, taskVars, report>>

(***************************************************************************)
(* getPublicRepos: the response to the request for `page` arrives          *)
(***************************************************************************)
\* data.filter((repo) => !repo.private)
NotPrivate(data) == SelectSeq(data, LAMBDA repo : ~repo.private)

\* (variant: a 404 of the list endpoint is not treated as a failure)
ListFailedExcept404(status) == ~Ok(status) /\ status # 404

\* if (!response.ok) throw
ListFailed(status) == ~Ok(status)

\* if (data.length === 0) break, in getPublicRepos
ListEmptyPage(data) == Len(data) = 0

\* (variant: a full page is taken for the last one)
ListLastPageInclusive(data) == Len(data) <= perPage

\* if (data.length < perPage) break, in getPublicRepos
ListLastPage(data) == Len(data) < perPage

getPublicRepos ==
    /\ pc = "listing"
    /\ \E status \in Statuses :
        /\ Serve(status)
        /\ listStatus' = status
        /\ listResponses' = listResponses + 1
        /\ LET data == PageOf(RemoteRepos(world), perPage, page)
           IN  IF ListFailed(status)
               THEN /\ pc' = "failed"
                    /\ UNCHANGED <<page, repos, listRequested>>
               ELSE IF ListEmptyPage(data)
               THEN /\ pc' = "listed"
                    /\ UNCHANGED <<page, repos, listRequested>>
               ELSE /\ repos' = repos \o NotPrivate(data)
                    /\ IF ListLastPage(data)
                       THEN /\ pc' = "listed"
                            /\ UNCHANGED <<page, listRequested>>
                       ELSE /\ page' = page + 1
                            /\ listRequested' = Append(listRequested, page + 1)
                            /\ pc' = "listing"
    /\ UNCHANGED <<world, now, currentYear, taskVars, report>>


(***************************************************************************)
(* main: starredRepos, pLimit(5), tasks                                    *)
(***************************************************************************)
\* (variant: repositories without stars are kept)
StarredOrNot(rs) == SelectSeq(rs, LAMBDA repo : repo.stargazers_count >= 0)

\* repos.filter((repo) => repo.stargazers_count > 0)
Starred(rs) == SelectSeq(rs, LAMBDA repo : repo.stargazers_count > 0)

\* (variant: the limiter admits one task too many)
CanRunInclusive(active) == active <= concurrency

\* (variant: the limiter never lets a task start)
CanRunNever(active) == FALSE

\* (variant: the limiter runs one task at a time)
CanRunOne(active) == active < 1

\* p-limit: a queued task may start
CanRun(active) == active < concurrency

\* p-limit: how many tasks of a queue of qlen start when `active` are running
RECURSIVE Admitted(_, _)
Admitted(active, qlen) ==
    IF qlen > 0 /\ CanRun(active) THEN 1 + Admitted(active + 1, qlen - 1) ELSE 0

Unset == <<0, 0, 0>>

StartTasks ==
    /\ pc = "listed"
    /\ \E t \in ClockReads :
       LET sr == Starred(repos)
           m == Len(sr)
           a == Admitted(0, m)
       IN  /\ now' = IF a > 0 THEN t ELSE now
           /\ a = 0 => t = now
           /\ starredRepos' = sr
           /\ taskState' = [i \in 1..m |-> IF i <= a THEN "running" ELSE "queued"]
           /\ startOfYear' = [i \in 1..m |-> IF i <= a THEN StartOfYearAt(t) ELSE Unset]
           /\ starsThisYear' = [i \in 1..m |-> 0]
           /\ spage' = [i \in 1..m |-> IF i <= a THEN 1 ELSE 0]
           /\ sRequested' = [i \in 1..m |-> IF i <= a THEN <<1>> ELSE <<>>]
           /\ sStatus' = [i \in 1..m |-> 0]
           /\ sResponses' = [i \in 1..m |-> 0]
           /\ started' = [k \in 1..a |-> sr[k].name]
           /\ activeCount' = a
           /\ queue' = [k \in 1..(m - a) |-> k + a]
           /\ taskResult' = [i \in 1..m |-> NoResult]
    /\ pc' = "aggregating"
    /\ UNCHANGED <<world, faults, currentYear, listVars, progress, report>>

(***************************************************************************)
(* getStarsThisYear inside a task                                          *)
(***************************************************************************)
\* star.starred_at >= startOfYear
InWindow(star, soy) == StrGeq(star.starred_at, soy)

\* the for loop over one page
CountInWindow(data, soy) ==
    Len(SelectSeq(data, LAMBDA star : InWindow(star, soy)))

\* (variant: the newest star of the page is tested instead of the oldest)
EarlyStopOnFirst(data, soy) ==
    Len(data) > 0 /\ StrLess(data[1].starred_at, soy)

\* (variant: the comparison of the early stop is reversed)
EarlyStopReversed(data, soy) ==
    Len(data) > 0 /\ StrGeq(data[Len(data)].starred_at, soy)

\* (variant: a page ending at the very instant of the window start stops too)
EarlyStopAtBoundary(data, soy) ==
    /\ Len(data) > 0
    /\ \/ data[Len(data)].starred_at[1] < soy[1]
       \/ /\ data[Len(data)].starred_at[1] = soy[1]
          /\ data[Len(data)].starred_at[2] <= soy[2]

\* oldestStar && oldestStar.starred_at < startOfYear
EarlyStop(data, soy) ==
    Len(data) > 0 /\ StrLess(data[Len(data)].starred_at, soy)

\* (variant: a full page is taken for the last one)
StarsLastPageInclusive(data) == Len(data) <= perPage

\* (variant: a short page is not taken for the last one)
StarsLastPageNever(data) == FALSE

\* if (data.length < perPage) break, in getStarsThisYear
StarsLastPage(data) == Len(data) < perPage

\* (variant: a 404 throws like any other failure status)
SoftFailureNever(status) == FALSE

\* (variant: every failure status is absorbed as a zero count)
SoftFailureAlways(status) == TRUE

\* if (response.status === 404) return 0
SoftFailure(status) == status = 404

\* (variant: a 404 returns what has been counted so far)
SoftFailureKeepsCount(count) == count

\* return 0 on a 404, whatever has been counted
SoftFailureValue(count) == 0

\* (variant: the two star counts are stored in each other's field)
RepoStarResultSwapped(repo, count) ==
    [ name |-> repo.name,
      fullName |-> repo.full_name,
      totalStars |-> count,
      starsThisYear |-> repo.stargazers_count,
      url |-> repo.html_url ]

\* the task's return value
RepoStarResult(repo, count) ==
    [ name |-> repo.name,
      fullName |-> repo.full_name,
      totalStars |-> repo.stargazers_count,
      starsThisYear |-> count,
      url |-> repo.html_url ]

\* The task of starredRepos[i] settles (st is "returned" or "thrown"), then
\* p-limit's next() runs: the slot is released and the head of the queue starts,
\* reading the clock (t) as getStarsThisYear begins.
Settle(i, st, count, t) ==
    LET active1 == activeCount - 1
        go == queue # <<>> /\ CanRun(active1)
        j == Head(queue)
        repo == starredRepos[i]
    IN  /\ now' = IF go THEN t ELSE now
        /\ ~go => t = now
        /\ starsThisYear' = [starsThisYear EXCEPT ![i] = count]
        /\ taskResult' = IF st = "returned"
                         THEN [taskResult EXCEPT ![i] = RepoStarResult(repo, count)]
                         ELSE taskResult
        /\ progress' = IF st = "returned" /\ count > 0
                       THEN progress \cup {repo.name}
                       ELSE progress
        /\ taskState' = IF go THEN [taskState EXCEPT ![i] = st, ![j] = "running"]
                        ELSE [taskState EXCEPT ![i] = st]
        /\ startOfYear' = IF go THEN [startOfYear EXCEPT ![j] = StartOfYearAt(t)]
                          ELSE startOfYear
        /\ spage' = IF go THEN [spage EXCEPT ![j] = 1] ELSE spage
        /\ sRequested' = IF go THEN [sRequested EXCEPT ![j] = <<1>>] ELSE sRequested
        /\ started' = IF go THEN Append(started, starredRepos[j].name) ELSE started
        /\ activeCount' = IF go THEN active1 + 1 ELSE active1
        /\ queue' = IF go THEN Tail(queue) ELSE queue
        /\ UNCHANGED starredRepos

\* the request for page spage[i] of starredRepos[i] is one that is never answered
Hung(i) == world.hang = starredRepos[i].name /\ spage[i] >= world.hangPage

\* the response to the request for page spage[i] of starredRepos[i] arrives
getStarsThisYear(i) ==
    /\ pc = "aggregating"
    /\ taskState[i] = "running"
    /\ ~Hung(i)
    /\ \E status \in Statuses, t \in ClockReads :
        /\ Serve(status)
        /\ sStatus' = [sStatus EXCEPT ![i] = status]
        /\ sResponses' = [sResponses EXCEPT ![i] = @ + 1]
        /\ LET repo == starredRepos[i]
               soy == startOfYear[i]
               data == PageOf(RemoteStargazers(world, repo.name), perPage, spage[i])
               counted == starsThisYear[i] + CountInWindow(data, soy)
           IN  IF ~Ok(status)
               THEN IF SoftFailure(status)
                    THEN /\ Settle(i, "returned", SoftFailureValue(starsThisYear[i]), t)
                         /\ pc' = "aggregating"
                    ELSE /\ Settle(i, "thrown", starsThisYear[i], t)
                         /\ pc' = "failed"
               ELSE IF Len(data) = 0
               THEN /\ Settle(i, "returned", starsThisYear[i], t)
                    /\ pc' = "aggregating"
               ELSE IF EarlyStop(data, soy) \/ StarsLastPage(data)
               THEN /\ Settle(i, "returned", counted, t)
                    /\ pc' = "aggregating"
               ELSE /\ starsThisYear' = [starsThisYear EXCEPT ![i] = counted]
                    /\ spage' = [spage EXCEPT ![i] = spage[i] + 1]
                    /\ sRequested' = [sRequested EXCEPT ![i] = Append(@, spage[i] + 1)]
                    /\ pc' = "aggregating"
                    /\ t = now
                    /\ UNCHANGED <<now, starredRepos, taskState, startOfYear, started,
                                   activeCount, queue, taskResult, progress>>
    /\ UNCHANGED <<world, currentYear, listVars, report>>

(***************************************************************************)
(* main after Promise.all: sort, totals, table                             *)
(***************************************************************************)
\* (variant: the comparator orders by ascending count)
SortCompareAscending(a, b) == a.starsThisYear - b.starsThisYear

\* (a, b) => b.starsThisYear - a.starsThisYear
SortCompare(a, b) == b.starsThisYear - a.starsThisYear

\* results.sort(compare): Array.prototype.sort is stable, so each element goes
\* after those the comparator puts before it and after the earlier ones the
\* comparator puts level with it
SortDesc(rs) ==
    LET before(i, j) ==
            \/ SortCompare(rs[i], rs[j]) < 0
            \/ SortCompare(rs[i], rs[j]) = 0 /\ i < j
        rank(i) == Cardinality({ j \in 1..Len(rs) : before(j, i) }) + 1
    IN  [k \in 1..Len(rs) |-> rs[CHOOSE i \in 1..Len(rs) : rank(i) = k]]

\* (variant: only the results with stars this year are summed)
RECURSIVE SumOfNewStars(_, _)
SumOfNewStars(rs, field) ==
    IF rs = <<>> THEN 0
    ELSE (IF Head(rs).starsThisYear > 0 THEN Head(rs)[field] ELSE 0)
         + SumOfNewStars(Tail(rs), field)

\* results.reduce((sum, r) => sum + r[field], 0)
RECURSIVE SumOf(_, _)
SumOf(rs, field) ==
    IF rs = <<>> THEN 0 ELSE Head(rs)[field] + SumOf(Tail(rs), field)

\* results.filter((r) => r.starsThisYear > 0)
WithNewStars(rs) == SelectSeq(rs, LAMBDA r : r.starsThisYear > 0)

\* reposWithNewStars.slice(0, 10)
Top10(rs) == SubSeq(rs, 1, Min(top10Size, Len(rs)))

Report ==
    /\ pc = "aggregating"
    /\ \A i \in DOMAIN taskState : taskState[i] = "returned"
    /\ LET results == SortDesc(taskResult)
       IN  report' = [ year |-> currentYear,
                       results |-> results,
                       totalStarsThisYear |-> SumOf(results, "starsThisYear"),
                       totalStarsAllTime |-> SumOf(results, "totalStars"),
                       top10 |-> Top10(WithNewStars(results)) ]
    /\ pc' = "done"
    /\ UNCHANGED <<world, now, faults, currentYear, listVars, taskVars>>

Next ==
    \/ TokenMissing
    \/ Main
    \/ getPublicRepos
    \/ StartTasks
    \/ \E i \in DOMAIN taskState : getStarsThisYear(i)
    \/ Report

Spec == Init /\ [][Next]_vars

SpecRank == InitRank /\ [][Next]_vars

\* runs over at least as many starred repositories as the limiter admits, in
\* which every request is answered with a successful response
LiveWorlds == { w \in Worlds : w.n = perPage + 1 /\ w.e >= concurrency }

InitLive == InitIn(LiveWorlds \cup {NoTokenWorld}, MaxFaults)

\* the event loop runs whatever is ready to run: a response that can arrive
\* does arrive, a continuation that can run does run
LiveSpec == InitLive /\ [][Next]_vars /\ WF_vars(Next)

\* runs in which the requests for one repository, from its first or its second
\* page on, are never answered: a repository of the first five, or the last
\* one, which waits in the queue
HangWorlds ==
    { [token |-> TRUE, n |-> perPage + 1, e |-> MaxEligible, rot |-> 0, span |-> LongShapes,
       hang |-> h[1], hangPage |-> h[2], ticks |-> MaxTicks] :
        h \in { <<2, 1>>, <<2, 2>>, <<perPage + 1, 1>> } }

InitHang == InitIn(HangWorlds \cup {NoTokenWorld}, MaxFaults)

HangSpec == InitHang /\ [][Next]_vars /\ WF_vars(Next)


(***************************************************************************)
(* Properties                                                              *)
(***************************************************************************)
Tasks == DOMAIN taskState

Running == { i \in Tasks : taskState[i] = "running" }

Returned == { i \in Tasks : taskState[i] = "returned" }

Thrown == { i \in Tasks : taskState[i] = "thrown" }

\* C1: at every moment the number of stargazer pagination sequences that have
\* started and have neither returned nor thrown is at most 5, whatever the
\* number of eligible repositories.
C1_AtMostFiveOutstanding ==
    /\ Cardinality(Running) <= 5
    /\ activeCount <= 5

\* five sequences are outstanding, one has already finished and nothing waits
C1_Witness ==
    /\ Cardinality(Running) = 5
    /\ Returned # {}
    /\ Len(starredRepos) > 5

\* C2: the window boundary is the same value in every repository's count of
\* one run (as stated by the claim; the code reads the clock in each call).
C2_OneBoundaryPerRun ==
    \A i, j \in Tasks :
        (sRequested[i] # <<>> /\ sRequested[j] # <<>>) => startOfYear[i] = startOfYear[j]


\* the repositories of the remote list that are public and have stars
Eligible ==
    { i \in 1..world.n :
        ~RemoteRepo(world, i).private /\ RemoteRepo(world, i).stargazers_count > 0 }

\* C3: a stargazer pagination is never started for a repository that is private
\* or has no stars, never twice for one repository, and in a run that ends
\* without a hard failure it has been started exactly once for every public
\* repository with stars.
C3_StartedExactlyOnceIffEligible ==
    /\ \A k \in 1..Len(started) :
        /\ started[k] \in 1..world.n
        /\ ~RemoteRepo(world, started[k]).private
        /\ RemoteRepo(world, started[k]).stargazers_count > 0
        /\ \A l \in 1..Len(started) : started[l] = started[k] => l = k
    /\ pc = "done" => \A i \in Eligible : \E k \in 1..Len(started) : started[k] = i

\* a finished run over a two-page list holding private repositories with stars,
\* public ones without, and more starred public ones than the limiter admits
C3_Witness ==
    /\ pc = "done"
    /\ Len(started) > 5
    /\ \E i \in 1..world.n :
        RemoteRepo(world, i).private /\ RemoteRepo(world, i).stargazers_count > 0
    /\ \E i \in 1..world.n :
        ~RemoteRepo(world, i).private /\ RemoteRepo(world, i).stargazers_count = 0

\* C4: when the aggregation has completed, there is exactly one RepoStarResult
\* for each public repository with stars, carrying its name, full name, url
\* and lifetime count, and there are no other entries.
C4_OneResultPerStarredRepo ==
    pc = "done" =>
        /\ Len(report.results) = Cardinality(Eligible)
        /\ \A i \in Eligible :
            \E k \in 1..Len(report.results) :
                /\ report.results[k].name = RemoteRepo(world, i).name
                /\ report.results[k].fullName = RemoteRepo(world, i).full_name
                /\ report.results[k].url = RemoteRepo(world, i).html_url
                /\ report.results[k].totalStars = RemoteRepo(world, i).stargazers_count
                /\ \A l \in 1..Len(report.results) :
                    report.results[l].name = i => l = k

\* a completed aggregation of several repositories, some with stars this year
C4_Witness ==
    /\ pc = "done"
    /\ Len(report.results) > 5
    /\ \E k \in 1..Len(report.results) : report.results[k].starsThisYear > 0
    /\ \E i \in 1..world.n : i \notin Eligible /\ ~RemoteRepo(world, i).private


\* the stargazer list the API holds for the repository of task i
StargazersOf(i) == RemoteStargazers(world, starredRepos[i].name)

\* the events among the first `upto` of seq that are at or after `soy`
InWindowUpTo(seq, soy, upto) ==
    Cardinality({ k \in 1..Min(upto, Len(seq)) : ~StrLess(seq[k].starred_at, soy) })

\* page p of seq is not empty and its last event is strictly before `soy`
LastIsBefore(seq, soy, p) ==
    /\ (p - 1) * perPage < Len(seq)
    /\ StrLess(seq[Min(p * perPage, Len(seq))].starred_at, soy)

\* C5: when every event of a repository's stargazer list is at or after the
\* window start, getStarsThisYear requests pages until the first empty or
\* short page, and not beyond, and returns the total number of events.
C5_AllInWindowCountsAll ==
    \A i \in Tasks :
        LET seq == StargazersOf(i)
            soy == startOfYear[i]
            pages == Len(seq) \div perPage + 1
            asClaimed ==
                /\ Len(sRequested[i]) <= pages
                /\ (taskState[i] = "returned" /\ sStatus[i] = 200) =>
                       /\ Len(sRequested[i]) = pages
                       /\ taskResult[i].starsThisYear = Len(seq)
        IN  (sRequested[i] # <<>> /\ ~asClaimed) =>
                InWindowUpTo(seq, soy, Len(seq)) # Len(seq)

\* a repository with more than one page of stars, all of this year, was counted
C5_Witness ==
    \E i \in Tasks :
        LET seq == StargazersOf(i)
        IN  /\ taskState[i] = "returned" /\ sStatus[i] = 200
            /\ Len(seq) > perPage
            /\ InWindowUpTo(seq, startOfYear[i], Len(seq)) = Len(seq)

\* C6: no page is requested after a page whose last event is strictly before
\* the window start, even when that page was full, and the count returned
\* includes the in-window events of that page.
C6_EarlyStopKeepsPageCount ==
    \A i \in Tasks :
        LET seq == StargazersOf(i)
            soy == startOfYear[i]
            k == Len(sRequested[i])
        IN  /\ \A p \in 1..(k - 1) : ~LastIsBefore(seq, soy, p)
            /\ (taskState[i] = "returned" /\ sStatus[i] = 200 /\ LastIsBefore(seq, soy, k)) =>
                   taskResult[i].starsThisYear = InWindowUpTo(seq, soy, k * perPage)

\* a full page that ends before the window start and holds in-window events
\* was the last one requested, although the list continues
C6_Witness ==
    \E i \in Tasks :
        LET seq == StargazersOf(i)
            k == Len(sRequested[i])
        IN  /\ taskState[i] = "returned" /\ sStatus[i] = 200
            /\ LastIsBefore(seq, startOfYear[i], k)
            /\ Len(seq) > k * perPage
            /\ taskResult[i].starsThisYear > 0


\* the tasks whose last response was a 404
NotFound == { i \in Tasks : sStatus[i] = 404 }

\* C7: a 404 on a repository's stargazer endpoint makes that repository's task
\* return 0 instead of throwing, the run fails only if some task threw, and
\* when the run completes every other repository has been attempted and has
\* the count determined by its own stargazer list and window start alone.
C7_NotFoundIsSoft ==
    /\ \A r \in NotFound :
        /\ taskState[r] = "returned"
        /\ taskResult[r].starsThisYear = 0
    /\ (pc = "failed" /\ Tasks # {}) => Thrown # {}
    /\ (pc = "done" /\ NotFound # {}) =>
        \A i \in Tasks \ NotFound :
            /\ taskState[i] = "returned"
            /\ sStatus[i] = 200
            /\ taskResult[i].starsThisYear =
                   InWindowUpTo(StargazersOf(i), startOfYear[i],
                                Len(sRequested[i]) * perPage)

\* a completed run in which a repository with stars this year answered 404
\* and another repository was counted with stars this year
C7_Witness ==
    /\ pc = "done"
    /\ \E r \in NotFound :
        InWindowUpTo(StargazersOf(r), startOfYear[r], perPage) > 0
    /\ \E i \in Tasks \ NotFound : taskResult[i].starsThisYear > 0

\* C8: a status other than 2xx and 404 on any stargazer request makes the task
\* throw and the run fail: no summary and no table is produced, whatever the
\* other tasks have done.
C8_HardFailureAborts ==
    /\ \A i \in Tasks : sStatus[i] \notin {0, 200, 404} => taskState[i] = "thrown"
    /\ Thrown # {} => (pc = "failed" /\ report = NoReport)
    /\ report # NoReport => \A i \in Tasks : sStatus[i] \in {200, 404}

\* a task threw after another one had already returned its result
C8_Witness ==
    /\ Thrown # {}
    /\ Returned # {}
    /\ \E i \in Returned : taskResult[i].starsThisYear > 0

\* C9: a non-2xx status, 404 included, on any page of the repository listing
\* fails the run, and no stargazer request is ever issued, not even for the
\* repositories read from earlier pages.
C9_ListFailureAbortsBeforeStargazers ==
    listStatus \notin {0, 200} =>
        /\ pc = "failed"
        /\ started = <<>>
        /\ Tasks = {}
        /\ report = NoReport

\* the second list page answered 404 after starred repositories had been read
C9_Witness ==
    /\ listStatus = 404
    /\ page = 2
    /\ Starred(repos) # <<>>

\* C10: when every response is successful, getPublicRepos requests pages
\* 1..floor(n/perPage)+1 of a list of n repositories and nothing else: it stops
\* at the first short page, and after a full last page it requests one more.
C10_ListFetchCount ==
    LET pages == world.n \div perPage + 1
    IN  /\ Len(listRequested) <= pages
        /\ (pc \in {"listed", "aggregating", "done"} \/ Tasks # {}) =>
               listRequested = [p \in 1..pages |-> p]

\* a list whose last page is full has been read with one extra request
C10_Witness ==
    /\ pc = "listed"
    /\ world.n = 2 * perPage
    /\ Len(listRequested) = 3


\* the count the window counter yields for the list seq read from page p on,
\* with every response successful and the window starting at soy
RECURSIVE WindowCount(_, _, _)
WindowCount(seq, soy, p) ==
    LET first == (p - 1) * perPage + 1
        last == Min(p * perPage, Len(seq))
        inPage == Cardinality({ k \in first..last : ~StrLess(seq[k].starred_at, soy) })
    IN  IF first > Len(seq) THEN 0
        ELSE IF StrLess(seq[last].starred_at, soy) \/ last - first + 1 < perPage
             THEN inPage
             ELSE inPage + WindowCount(seq, soy, p + 1)

\* rs is in descending order of starsThisYear, equal counts in list order
RankedInListOrder(rs) ==
    \A k, l \in 1..Len(rs) :
        k < l => \/ rs[k].starsThisYear > rs[l].starsThisYear
                 \/ /\ rs[k].starsThisYear = rs[l].starsThisYear
                    /\ rs[k].name < rs[l].name

\* C11: with every response successful, the sorted results of a run are fixed
\* by the remote data and the year in which the run began, whatever the order
\* in which the stargazer fetches complete (as stated by the claim; it fails
\* when the clock passes 1 January during the run, see C2).
C11_SameDataSameResults ==
    (pc = "done" /\ \A i \in Tasks : sStatus[i] = 200) =>
        /\ RankedInListOrder(report.results)
        /\ \A k \in 1..Len(report.results) :
            report.results[k].starsThisYear =
                WindowCount(RemoteStargazers(world, report.results[k].name),
                            StartOfYearAt(currentYear), 1)


\* the results with stars this year, in report order
RankedWithNewStars == { k \in 1..Len(report.results) : report.results[k].starsThisYear > 0 }

\* the names shown in the table
TableNames == { report.top10[k].name : k \in 1..Len(report.top10) }

\* C12: the table holds only results with stars this year, at most 10 of them,
\* in non-increasing order of stars this year, and no result left out of the
\* table has strictly more stars this year than one that is in it.
C12_TableIsTopTen ==
    pc = "done" =>
        /\ Len(report.top10) <= 10
        /\ \A k \in 1..Len(report.top10) :
            /\ report.top10[k].starsThisYear > 0
            /\ \E l \in 1..Len(report.results) : report.results[l] = report.top10[k]
            /\ \A l \in 1..Len(report.top10) :
                k < l => report.top10[k].starsThisYear >= report.top10[l].starsThisYear
            /\ \A l \in 1..Len(report.results) :
                report.results[l].name \notin TableNames =>
                    report.results[l].starsThisYear <= report.top10[k].starsThisYear

\* a full table of unequal counts, with results with stars this year left out
\* of it and results without stars this year
C12_Witness ==
    /\ pc = "done"
    /\ Len(report.top10) = 10
    /\ Cardinality(RankedWithNewStars) > 10
    /\ Cardinality(RankedWithNewStars) < Len(report.results)
    /\ report.top10[1].starsThisYear > report.top10[10].starsThisYear

\* the sum of f over the finite set S
RECURSIVE SumOver(_, _)
SumOver(S, f) ==
    IF S = {} THEN 0
    ELSE LET x == CHOOSE y \in S : TRUE
         IN  f[x] + SumOver(S \ {x}, f)

\* C13: the two totals of the report are the sums over every public repository
\* with stars, whether it has stars this year or not and whether it is in the
\* table or not; repositories without stars contribute nothing and have no
\* result.
C13_TotalsOverAllResults ==
    pc = "done" =>
        /\ report.totalStarsThisYear = SumOver(Tasks, starsThisYear)
        /\ report.totalStarsAllTime =
               SumOver(Eligible, [i \in Eligible |-> RemoteRepo(world, i).stargazers_count])
        /\ \A k \in 1..Len(report.results) : report.results[k].totalStars > 0

\* totals over results of which some are outside the table and some have no
\* stars this year, the list holding a public repository without stars
C13_Witness ==
    /\ pc = "done"
    /\ Len(report.results) > Len(report.top10)
    /\ Len(report.top10) = 10
    /\ \E k \in 1..Len(report.results) : report.results[k].starsThisYear = 0
    /\ \E i \in 1..world.n :
        ~RemoteRepo(world, i).private /\ RemoteRepo(world, i).stargazers_count = 0
    /\ report.totalStarsThisYear > 0
    /\ report.totalStarsAllTime > report.totalStarsThisYear


\* seq is newest first: no event is followed by a later one
NewestFirst(seq) ==
    \A k \in 1..(Len(seq) - 1) : ~StrLess(seq[k].starred_at, seq[k + 1].starred_at)

\* C14: when the stargazer list of a repository is newest first and every
\* response is successful, getStarsThisYear returns the number of events of
\* the whole list that are at or after the window start: the early stop skips
\* no in-window event.
C14_NewestFirstCountsWholeWindow ==
    \A i \in Tasks :
        (taskState[i] = "returned" /\ sStatus[i] = 200 /\ NewestFirst(StargazersOf(i))) =>
            taskResult[i].starsThisYear =
                InWindowUpTo(StargazersOf(i), startOfYear[i], Len(StargazersOf(i)))

\* a newest-first list was counted with an early stop that left events unread
C14_Witness ==
    \E i \in Tasks :
        /\ taskState[i] = "returned" /\ sStatus[i] = 200
        /\ NewestFirst(StargazersOf(i))
        /\ Len(StargazersOf(i)) > Len(sRequested[i]) * perPage
        /\ taskResult[i].starsThisYear > 0

\* the instants of two timestamps, whatever their notation
SameInstant(a, b) == a[1] = b[1] /\ a[2] = b[2]

InstantGeq(a, b) == a[1] > b[1] \/ (a[1] = b[1] /\ a[2] >= b[2])

\* page p of seq is full and its last event is at the instant `soy`
FullPageEndsAt(seq, soy, p) ==
    /\ p * perPage <= Len(seq)
    /\ SameInstant(seq[p * perPage].starred_at, soy)

\* C15: an event at the very instant of the window start is counted, and a
\* page whose last event is at that instant does not stop the pagination: when
\* the page is full the next one is requested.
C15_BoundaryIsInside ==
    \A i \in Tasks :
        LET seq == StargazersOf(i)
            soy == startOfYear[i]
            read == IF sStatus[i] = 200 THEN sResponses[i] ELSE sResponses[i] - 1
        IN  sResponses[i] > 0 =>
                /\ \A p \in 1..read :
                    FullPageEndsAt(seq, soy, p) => Len(sRequested[i]) > p
                /\ (taskState[i] = "returned" /\ sStatus[i] = 200) =>
                       taskResult[i].starsThisYear =
                           Cardinality({ k \in 1..Min(read * perPage, Len(seq)) :
                                           InstantGeq(seq[k].starred_at, soy) })

\* a full first page ended at the instant of the window start, the second page
\* was read and the events at that instant of both pages are in the count
C15_Witness ==
    \E i \in Tasks :
        /\ taskState[i] = "returned" /\ sStatus[i] = 200
        /\ FullPageEndsAt(StargazersOf(i), startOfYear[i], 1)
        /\ Len(sRequested[i]) = 2
        /\ SameInstant(StargazersOf(i)[perPage + 1].starred_at, startOfYear[i])
        /\ taskResult[i].starsThisYear = perPage + 1

\* the page indices 1, 2, ..., k
Upto(k) == [p \in 1..k |-> p]

\* C16: each pagination requests the pages 1, 2, 3, ... in this order without
\* gap or repeat, has at most one request outstanding, and requests page k+1
\* only after the response to page k has arrived with none of the stop
\* conditions holding for it.
C16_PagesInOrderOneAtATime ==
    /\ listRequested = Upto(Len(listRequested))
    /\ Len(listRequested) - listResponses = (IF pc = "listing" THEN 1 ELSE 0)
    /\ \A p \in 1..(Len(listRequested) - 1) : p * perPage <= world.n
    /\ \A i \in Tasks :
        /\ sRequested[i] = Upto(Len(sRequested[i]))
        /\ Len(sRequested[i]) - sResponses[i] = (IF taskState[i] = "running" THEN 1 ELSE 0)
        /\ \A p \in 1..(Len(sRequested[i]) - 1) :
            /\ p * perPage <= Len(StargazersOf(i))
            /\ ~LastIsBefore(StargazersOf(i), startOfYear[i], p)

\* two paginations of a repository are in their second page, one waiting for
\* its response, the other finished, after a listing of two pages
C16_Witness ==
    /\ Len(listRequested) = 2
    /\ \E i, j \in Tasks :
        /\ Len(sRequested[i]) = 2 /\ sResponses[i] = 1 /\ taskState[i] = "running"
        /\ Len(sRequested[j]) = 2 /\ sResponses[j] = 2 /\ taskState[j] = "returned"


\* C19: a 404 on any page of a repository's stargazer pagination, the first or
\* a later one, makes getStarsThisYear return 0: what the earlier pages added
\* to the count is dropped, no progress line is printed for the repository and
\* it does not enter the table.
C19_NotFoundDropsCount ==
    \A r \in Tasks :
        sStatus[r] = 404 =>
            /\ taskState[r] = "returned"
            /\ taskResult[r] = RepoStarResult(starredRepos[r], 0)
            /\ starredRepos[r].name \notin progress
            /\ pc = "done" =>
                \A k \in 1..Len(report.top10) : report.top10[k].name # starredRepos[r].name

\* the second page of a repository answered 404 after a first page full of
\* stars of this year, and the run completed
C19_Witness ==
    /\ pc = "done"
    /\ \E r \in Tasks :
        /\ sStatus[r] = 404
        /\ sResponses[r] = 2
        /\ InWindowUpTo(StargazersOf(r), startOfYear[r], perPage) = perPage


\* C17: when every request is answered successfully, a queued repository never
\* waits while a slot is free, and the run goes on until every public
\* repository with stars has been started and has returned and the report is
\* made.
C17_EveryRepositoryFinishes ==
    /\ [](queue # <<>> => activeCount = concurrency)
    /\ [](pc = "done" => { started[k] : k \in 1..Len(started) } = Eligible)
    /\ (pc = "start" /\ world.token) ~>
           (/\ pc = "done"
            /\ report # NoReport
            /\ Len(started) = Len(starredRepos)
            /\ \A i \in Tasks : taskState[i] = "returned")

\* a run over more repositories than the limiter admits, some of them read in
\* several pages, has completed
C17_Witness ==
    /\ pc = "done"
    /\ Len(starredRepos) > concurrency
    /\ \E i \in Tasks : Len(sRequested[i]) > 1
    /\ \A i \in Tasks : sStatus[i] = 200

\* the tasks waiting for a response that never comes
HungTasks == { i \in Tasks : taskState[i] = "running" /\ Hung(i) }

\* C18: when a request of one repository is never answered, the run neither
\* fails nor completes: the task keeps its slot forever, at most 4 other
\* repositories are fetched at a time, and every other public repository with
\* stars is started and returns.
C18_HangHoldsOneSlot ==
    /\ [](pc # "failed")
    /\ [](HungTasks # {} =>
            /\ pc = "aggregating"
            /\ report = NoReport
            /\ Cardinality(Running \ HungTasks) <= 4)
    /\ [][HungTasks \subseteq HungTasks']_vars
    /\ (HungTasks # {}) ~>
           (/\ HungTasks # {}
            /\ Len(started) = Len(starredRepos)
            /\ \A j \in Tasks \ HungTasks : taskState[j] = "returned")

\* the repository that was last in the queue waits for a response that never
\* comes, and all the others have returned
C18_Witness ==
    /\ HungTasks = {Len(starredRepos)}
    /\ Len(starredRepos) > concurrency
    /\ \A j \in Tasks \ HungTasks : taskState[j] = "returned"

====
